---- MODULE Spec2Model ----
(***************************************************************************)
(* Model of app.py: URLProcessor, DownloadManager and the Streamlit        *)
(* handlers handle_download / render_history.                              *)
(*                                                                         *)
(* Python strings are sequences of one-character strings, so that          *)
(* str.lower(), the `in` substring test, str.count, str.rstrip and         *)
(* re.search are computed, not assumed.                                    *)
(***************************************************************************)
EXTENDS Integers, Sequences, FiniteSets, TLC

VARIABLES
    download_in_progress,  \* st.session_state.download_in_progress
    download_history,      \* st.session_state.download_history
    files,                 \* the files that exist under DOWNLOADS_DIR
    pc,                    \* per script run: position in handle_download / download_video
    req,                   \* per script run: arguments of the call
    opts,                  \* per script run: the opts dict of download_video
    engineLog,             \* per script run: one record per yt_dlp.YoutubeDL(opts) invocation
    result,                \* per script run: value returned by download_video
    started,               \* number of calls made so far
    preview,               \* per script run: what get_video_info returned
    args,                  \* arguments of a call of one of the pure functions
    ret                    \* the values such calls returned, in order

vars == <<download_in_progress, download_history, files, pc, req, opts,
          engineLog, result, started, preview, args, ret>>

-----------------------------------------------------------------------------
(* Bounds *)

MaxFrags == 2       \* an engine error message is made of at most MaxFrags fragments
MaxStarted == 3     \* handle_download calls per session that the model follows
MaxApply == 3       \* successive applications of sanitize_url that the model follows

-----------------------------------------------------------------------------
(* Python str helpers *)

UpperSeq == <<"A","B","C","D","E","F","G","H","I","J","K","L","M","N","O","P","Q","R","S","T","U","V","W","X","Y","Z">>
LowerSeq == <<"a","b","c","d","e","f","g","h","i","j","k","l","m","n","o","p","q","r","s","t","u","v","w","x","y","z">>
DigitSeq == <<"0","1","2","3","4","5","6","7","8","9">>

Range(f) == {f[i] : i \in DOMAIN f}

\* the lower-case letter of each upper-case letter
LowerOf == [c \in Range(UpperSeq) |-> LowerSeq[CHOOSE i \in 1..Len(UpperSeq) : UpperSeq[i] = c]]

\* str.lower() on one character
LowerChar(c) == IF c \in DOMAIN LowerOf THEN LowerOf[c] ELSE c

\* str.lower()
Lower(s) == [i \in 1..Len(s) |-> LowerChar(s[i])]

\* sub in s
Contains(s, sub) ==
    \E i \in 0..(Len(s) - Len(sub)) : \A j \in 1..Len(sub) : s[i + j] = sub[j]

\* s.startswith(pre), s.endswith(suf)
StartsWith(s, pre) == Len(s) >= Len(pre) /\ SubSeq(s, 1, Len(pre)) = pre
EndsWith(s, suf) == Len(s) >= Len(suf) /\ SubSeq(s, Len(s) - Len(suf) + 1, Len(s)) = suf

\* s.count(c) for a single character c
Count(s, c) == Cardinality({i \in 1..Len(s) : s[i] = c})

\* s.rstrip(c): every trailing c is removed
RStrip(s, c) ==
    LET keep == {i \in 0..Len(s) : \A j \in (i + 1)..Len(s) : s[j] = c}
        n == CHOOSE i \in keep : \A k \in keep : i <= k
    IN  SubSeq(s, 1, n)

\* s.lstrip(c)
LStrip(s, c) ==
    LET drop == {i \in 0..Len(s) : \A j \in 1..i : s[j] = c}
        n == CHOOSE i \in drop : \A k \in drop : i >= k
    IN  SubSeq(s, n + 1, Len(s))

Whitespace == {" ", "\t", "\n"}

\* ''.join(s.split())
RemoveWhitespace(s) == SelectSeq(s, LAMBDA c : c \notin Whitespace)

-----------------------------------------------------------------------------
(* re.search for the regular expressions of PLATFORM_PATTERNS.  A regex is *)
(* a set of alternatives; an alternative is a sequence of atoms; an atom   *)
(* is a character class with a repetition range (max = -1: unbounded).     *)

WordChars == Range(UpperSeq) \cup Range(LowerSeq) \cup Range(DigitSeq) \cup {"_"}
IdChars == WordChars \cup {"-"}          \* [a-zA-Z0-9_-]
NameChars == WordChars \cup {".", "-"}   \* [\w\.-]
Digits == Range(DigitSeq)                \* \d

Lit(s) == [i \in 1..Len(s) |-> [cls |-> {s[i]}, min |-> 1, max |-> 1]]
Rep(cls, lo, hi) == <<[cls |-> cls, min |-> lo, max |-> hi]>>
Plus(cls) == Rep(cls, 1, -1)

RECURSIVE MatchFrom(_, _, _, _)
MatchFrom(atoms, k, s, pos) ==
    IF k > Len(atoms) THEN TRUE
    ELSE LET a == atoms[k]
             hi == IF a.max = -1 THEN Len(s) - pos + 1 ELSE a.max
         IN  \E n \in a.min..hi :
                /\ pos + n - 1 <= Len(s)
                /\ \A j \in pos..(pos + n - 1) : s[j] \in a.cls
                /\ MatchFrom(atoms, k + 1, s, pos + n)

re_search(regex, s) ==
    \E alt \in regex : \E pos \in 1..(Len(s) + 1) : MatchFrom(alt, 1, s, pos)

-----------------------------------------------------------------------------
(* Constants of app.py *)

NoPlatform == "None"

PlatformOrder == <<"youtube", "tiktok", "instagram", "facebook", "twitter", "snapchat">>

PLATFORM_PATTERNS ==
    [youtube |-> <<
        { Lit(<<"y","o","u","t","u","b","e",".","c","o","m","/","w","a","t","c","h","?","v","=">>) \o Rep(IdChars, 11, 11),
          Lit(<<"y","o","u","t","u",".","b","e","/">>) \o Rep(IdChars, 11, 11),
          Lit(<<"y","o","u","t","u","b","e",".","c","o","m","/","e","m","b","e","d","/">>) \o Rep(IdChars, 11, 11),
          Lit(<<"y","o","u","t","u","b","e",".","c","o","m","/","v","/">>) \o Rep(IdChars, 11, 11) },
        { Lit(<<"y","o","u","t","u","b","e",".","c","o","m","/","s","h","o","r","t","s","/">>) \o Rep(IdChars, 11, 11) } >>,
     tiktok |-> <<
        { Lit(<<"t","i","k","t","o","k",".","c","o","m","/","@">>) \o Plus(NameChars) \o Lit(<<"/","v","i","d","e","o","/">>) \o Plus(Digits) },
        { Lit(<<"v","m",".","t","i","k","t","o","k",".","c","o","m","/">>) \o Plus(WordChars) },
        { Lit(<<"v","t",".","t","i","k","t","o","k",".","c","o","m","/">>) \o Plus(WordChars) } >>,
     instagram |-> <<
        { Lit(<<"i","n","s","t","a","g","r","a","m",".","c","o","m","/","p","/">>) \o Plus(IdChars),
          Lit(<<"i","n","s","t","a","g","r","a","m",".","c","o","m","/","r","e","e","l","/">>) \o Plus(IdChars),
          Lit(<<"i","n","s","t","a","g","r","a","m",".","c","o","m","/","t","v","/">>) \o Plus(IdChars) } >>,
     facebook |-> <<
        { Lit(<<"f","a","c","e","b","o","o","k",".","c","o","m","/","w","a","t","c","h","/","?","v","=">>) \o Plus(Digits) },
        { Lit(<<"f","a","c","e","b","o","o","k",".","c","o","m","/">>) \o Plus(NameChars) \o Lit(<<"/","v","i","d","e","o","s","/">>) \o Plus(Digits) },
        { Lit(<<"f","b",".","w","a","t","c","h","/">>) \o Plus(WordChars) } >>,
     twitter |-> <<
        { Lit(<<"t","w","i","t","t","e","r",".","c","o","m","/">>) \o Plus(NameChars) \o Lit(<<"/","s","t","a","t","u","s","/">>) \o Plus(Digits) },
        { Lit(<<"x",".","c","o","m","/">>) \o Plus(NameChars) \o Lit(<<"/","s","t","a","t","u","s","/">>) \o Plus(Digits) } >>,
     snapchat |-> <<
        { Lit(<<"s","n","a","p","c","h","a","t",".","c","o","m","/","t","/">>) \o Plus(WordChars) },
        { Lit(<<"s","n","a","p","c","h","a","t",".","c","o","m","/","a","d","d","/">>) \o Plus(NameChars) } >>]

KnownPlatforms == DOMAIN PLATFORM_PATTERNS

-----------------------------------------------------------------------------
(* URLProcessor *)

HTTP == <<"h","t","t","p",":","/","/">>
HTTPS == <<"h","t","t","p","s",":","/","/">>

\* URLProcessor.detect_platform: first platform, in dict order, one of whose
\* patterns is found in url.lower()
detect_platform(url) ==
    LET url_lower == Lower(url)
        hit(i) == \E k \in DOMAIN PLATFORM_PATTERNS[PlatformOrder[i]] :
                      re_search(PLATFORM_PATTERNS[PlatformOrder[i]][k], url_lower)
        hits == {i \in DOMAIN PlatformOrder : hit(i)}
    IN  IF hits = {} THEN NoPlatform
        ELSE PlatformOrder[CHOOSE i \in hits : \A j \in hits : i <= j]

\* URLProcessor.is_valid_content_url
is_valid_content_url(url, platform) ==
    LET url_lower == Lower(url)
    IN  IF Len(url) = 0 \/ platform = NoPlatform THEN FALSE
        ELSE IF platform = "tiktok" /\ Contains(url_lower, <<"/","e","x","p","l","o","r","e">>) THEN FALSE
        ELSE IF platform = "tiktok" /\ (EndsWith(url_lower, <<"t","i","k","t","o","k",".","c","o","m","/">>)
                                        \/ EndsWith(url_lower, <<"t","i","k","t","o","k",".","c","o","m">>)) THEN FALSE
        ELSE IF platform = "tiktok" /\ ~(Contains(url_lower, <<"/","v","i","d","e","o","/">>)
                                         \/ Contains(url_lower, <<"v","m",".","t","i","k","t","o","k">>)
                                         \/ Contains(url_lower, <<"v","t",".","t","i","k","t","o","k">>)) THEN FALSE
        ELSE IF platform = "youtube" /\ ~(Contains(url_lower, <<"w","a","t","c","h","?","v","=">>)
                                          \/ Contains(url_lower, <<"/","s","h","o","r","t","s","/">>)
                                          \/ Contains(url_lower, <<"y","o","u","t","u",".","b","e","/">>)) THEN FALSE
        ELSE IF platform \in KnownPlatforms
             THEN \E k \in DOMAIN PLATFORM_PATTERNS[platform] :
                      re_search(PLATFORM_PATTERNS[platform][k], url_lower)
             ELSE FALSE

sanitize_url_strip_one(url) ==
    IF Len(url) = 0 THEN url
    ELSE LET u1 == RemoveWhitespace(url)
             u2 == IF Count(u1, "/") > 3 /\ EndsWith(u1, <<"/">>)
                   THEN SubSeq(u1, 1, Len(u1) - 1) ELSE u1
         IN  IF StartsWith(u2, HTTP) \/ StartsWith(u2, HTTPS) THEN u2
             ELSE IF StartsWith(u2, <<"/","/">>) THEN <<"h","t","t","p","s",":">> \o u2
             ELSE IF StartsWith(u2, <<"/">>) THEN HTTPS \o LStrip(u2, "/")
             ELSE HTTPS \o u2

\* URLProcessor.sanitize_url
sanitize_url(url) ==
    IF Len(url) = 0 THEN url
    ELSE LET u1 == RemoveWhitespace(url)
             u2 == IF Count(u1, "/") > 3 THEN RStrip(u1, "/") ELSE u1
         IN  IF StartsWith(u2, HTTP) \/ StartsWith(u2, HTTPS) THEN u2
             ELSE IF StartsWith(u2, <<"/","/">>) THEN <<"h","t","t","p","s",":">> \o u2
             ELSE IF StartsWith(u2, <<"/">>) THEN HTTPS \o LStrip(u2, "/")
             ELSE HTTPS \o u2

-----------------------------------------------------------------------------
(* DownloadManager: engine options *)

Qualities == {"best", "1080p", "720p", "480p", "360p"}

\* A format expression a/b/c is the sequence <<a, b, c>> of its terms.
TikTokQualityMap ==
    [best |-> <<"best[vcodec!=none][acodec!=none]", "bestvideo[ext=mp4]+bestaudio[ext=m4a]",
                "bestvideo+bestaudio", "best">>,
     1080p |-> <<"best[height<=1080][vcodec!=none][acodec!=none]",
                 "bestvideo[height<=1080]+bestaudio", "best[height<=1080]">>,
     720p |-> <<"best[height<=720][vcodec!=none][acodec!=none]",
                "bestvideo[height<=720]+bestaudio", "best[height<=720]">>,
     480p |-> <<"best[height<=480][vcodec!=none][acodec!=none]",
                "bestvideo[height<=480]+bestaudio", "best[height<=480]">>,
     360p |-> <<"best[height<=360][vcodec!=none][acodec!=none]",
                "bestvideo[height<=360]+bestaudio", "best[height<=360]">>]

DefaultQualityMap ==
    [best |-> <<"bestvideo[height<=2160]+bestaudio", "best">>,
     1080p |-> <<"bestvideo[height<=1080]+bestaudio", "best">>,
     720p |-> <<"bestvideo[height<=720]+bestaudio", "best">>,
     480p |-> <<"bestvideo[height<=480]+bestaudio", "best">>,
     360p |-> <<"bestvideo[height<=360]+bestaudio", "best">>]

get_format_selector_platform_first(quality, extract_audio, platform) ==
    LET quality_map == IF platform = "tiktok" THEN TikTokQualityMap
                       ELSE DefaultQualityMap
    IN  IF platform # "tiktok" /\ extract_audio THEN <<"bestaudio", "best">>
        ELSE IF quality \in DOMAIN quality_map THEN quality_map[quality]
        ELSE quality_map["best"]

\* DownloadManager._get_format_selector
get_format_selector(quality, extract_audio, platform) ==
    IF extract_audio THEN <<"bestaudio", "best">>
    ELSE LET quality_map == IF platform = "tiktok" THEN TikTokQualityMap
                            ELSE DefaultQualityMap
         IN  IF quality \in DOMAIN quality_map THEN quality_map[quality]
             ELSE quality_map["best"]

\* dict helpers: a dict is a function from its keys
DictSet(d, k, v) == [x \in DOMAIN d \cup {k} |-> IF x = k THEN v ELSE d[x]]
DictDel(d, k) == [x \in DOMAIN d \ {k} |-> d[x]]

UserAgent == "Mozilla/5.0"
NoHook == "None"

http_headers(platform) ==
    IF platform = "tiktok"
    THEN [UserAgent |-> UserAgent, Referer |-> "https://www.tiktok.com/"]
    ELSE [UserAgent |-> UserAgent]

WithMergeExceptTikTok(o, extract_audio, platform) ==
    IF ~extract_audio /\ platform # "tiktok"
    THEN DictSet(o, "merge_output_format", "mp4") ELSE o

\* the merge_output_format assignments of get_base_opts (lines 237-250)
WithMerge(o, extract_audio, platform) ==
    LET o1 == IF platform = "tiktok" /\ ~extract_audio
              THEN DictSet(o, "merge_output_format", "mp4") ELSE o
    IN  IF ~extract_audio /\ platform # "tiktok"
        THEN DictSet(o1, "merge_output_format", "mp4") ELSE o1

\* DownloadManager.get_base_opts
get_base_opts(quality, extract_audio, platform) ==
    LET base == [format |-> get_format_selector(quality, extract_audio, platform),
                 outtmpl |-> "downloads/%(title)s.%(ext)s",
                 quiet |-> FALSE,
                 no_warnings |-> FALSE,
                 noplaylist |-> TRUE,
                 http_headers |-> http_headers(platform)]
        o1 == IF platform = "tiktok"
              THEN DictSet(base, "extractor_args", "tiktok:webpage_download")
              ELSE base
        o2 == WithMerge(o1, extract_audio, platform)
    IN  IF extract_audio
        THEN DictSet(o2, "postprocessors", "FFmpegExtractAudio:mp3:192")
        ELSE o2

-----------------------------------------------------------------------------
(* The extraction engine (yt_dlp.YoutubeDL): what one invocation can do *)

SIGI == <<"U","n","a","b","l","e"," ","t","o"," ","e","x","t","r","a","c","t"," ","s","i","g","i"," ","s","t","a","t","e">>
FORMAT_NA == <<"R","e","q","u","e","s","t","e","d"," ","f","o","r","m","a","t"," ","i","s"," ","n","o","t"," ","a","v","a","i","l","a","b","l","e">>

\* fragments of the text of a yt_dlp.utils.DownloadError
Fragments ==
    { SIGI,
      FORMAT_NA,
      <<"P","r","i","v","a","t","e"," ","v","i","d","e","o">>,
      <<"V","i","d","e","o"," ","u","n","a","v","a","i","l","a","b","l","e">>,
      <<"w","e","b","p","a","g","e">>,
      <<"U","n","s","u","p","p","o","r","t","e","d"," ","U","R","L">> }

RECURSIVE MessagesOf(_)
MessagesOf(n) ==
    IF n = 0 THEN {<<>>}
    ELSE LET shorter == MessagesOf(n - 1)
         IN  shorter \cup {m \o f : m \in shorter, f \in Fragments}

Messages == MessagesOf(MaxFrags)

\* texts of exceptions that are not DownloadError
ExcMessages == {<<>>, <<"p","r","i","v","a","t","e"," ","f","o","r","m","a","t">>}

Titles == {"A", "B"}
File(title, ext) == [title |-> title, ext |-> ext]

\* the filepath None of a failure
NoFile == File("None", "None")

\* a normal return of extract_info(download=True): the info dict, the name
\* prepare_filename gives, and the files the engine left on disk
OkOutcomes ==
    {[kind |-> "ok", title |-> t, ext |-> "mp4", wrote |-> w] :
        t \in Titles, w \in SUBSET {"mp4", "mp3"}}

EngineOutcomes ==
    OkOutcomes
    \cup {[kind |-> "DownloadError", msg |-> m] : m \in Messages}
    \cup {[kind |-> "Exception", msg |-> m] : m \in ExcMessages}

WrittenBy(o) == {File(o.title, e) : e \in o.wrote}

-----------------------------------------------------------------------------
(* DownloadManager.download_video *)

Procs == {1, 2}
\* records, so that a position holding no value compares with one that holds
\* a request, a result or an options dict
NoReq == [kind |-> "None"]
NoArgs == "None"
NoResult == [kind |-> "None"]
NoOpts == [kind |-> "None"]

Ok(filepath, title) ==
    [success |-> TRUE, filepath |-> filepath, message |-> [text |-> "", arg |-> title]]
Fail(text, arg) ==
    [success |-> FALSE, filepath |-> NoFile, message |-> [text |-> text, arg |-> arg]]

AfterExtractNoCheck(o, extract_audio, disk) ==
    Ok(File(o.title, IF extract_audio THEN "mp3" ELSE o.ext), o.title)

\* lines 321-329 and 346-352: the return after extract_info came back
AfterExtract(o, extract_audio, disk) ==
    LET prepared == File(o.title, o.ext)
        filename == IF extract_audio THEN File(prepared.title, "mp3") ELSE prepared
    IN  IF filename \in disk THEN Ok(filename, o.title)
        ELSE Fail("File not found after download", <<>>)

\* line 337: the test that starts the fallback
IsFormatError(error_msg) ==
    Contains(error_msg, FORMAT_NA) \/ Contains(Lower(error_msg), <<"f","o","r","m","a","t">>)

ClassifyUnavailableFirst(error_msg) ==
    IF Contains(error_msg, SIGI)
    THEN Fail("TikTok API Changed. Update yt-dlp: 'pip install --upgrade yt-dlp'", <<>>)
    ELSE IF Contains(error_msg, <<"V","i","d","e","o"," ","u","n","a","v","a","i","l","a","b","l","e">>)
            \/ Contains(Lower(error_msg), <<"u","n","a","v","a","i","l","a","b","l","e">>)
    THEN Fail("Video unavailable or removed", <<>>)
    ELSE IF Contains(error_msg, <<"P","r","i","v","a","t","e"," ","v","i","d","e","o">>) \/ Contains(Lower(error_msg), <<"p","r","i","v","a","t","e">>)
    THEN Fail("This video is private", <<>>)
    ELSE IF Contains(error_msg, <<"S","i","g","n"," ","i","n"," ","t","o"," ","c","o","n","f","i","r","m"," ","y","o","u","r"," ","a","g","e">>)
            \/ Contains(Lower(error_msg), <<"a","g","e">>)
    THEN Fail("Age-restricted content", <<>>)
    ELSE IF Contains(error_msg, <<"U","n","s","u","p","p","o","r","t","e","d"," ","U","R","L">>)
    THEN Fail("Unsupported URL. Please ensure you paste a specific video link, not a homepage.", <<>>)
    ELSE Fail("Download error: ", error_msg)

ClassifyUnsupportedFirst(error_msg) ==
    IF Contains(error_msg, SIGI)
    THEN Fail("TikTok API Changed. Update yt-dlp: 'pip install --upgrade yt-dlp'", <<>>)
    ELSE IF Contains(error_msg, <<"U","n","s","u","p","p","o","r","t","e","d"," ","U","R","L">>)
    THEN Fail("Unsupported URL. Please ensure you paste a specific video link, not a homepage.", <<>>)
    ELSE IF Contains(error_msg, <<"P","r","i","v","a","t","e"," ","v","i","d","e","o">>) \/ Contains(Lower(error_msg), <<"p","r","i","v","a","t","e">>)
    THEN Fail("This video is private", <<>>)
    ELSE IF Contains(error_msg, <<"V","i","d","e","o"," ","u","n","a","v","a","i","l","a","b","l","e">>)
            \/ Contains(Lower(error_msg), <<"u","n","a","v","a","i","l","a","b","l","e">>)
    THEN Fail("Video unavailable or removed", <<>>)
    ELSE IF Contains(error_msg, <<"S","i","g","n"," ","i","n"," ","t","o"," ","c","o","n","f","i","r","m"," ","y","o","u","r"," ","a","g","e">>)
            \/ Contains(Lower(error_msg), <<"a","g","e">>)
    THEN Fail("Age-restricted content", <<>>)
    ELSE Fail("Download error: ", error_msg)

\* lines 356-369: except yt_dlp.utils.DownloadError as e
ClassifyDownloadError(error_msg) ==
    IF Contains(error_msg, SIGI)
    THEN Fail("TikTok API Changed. Update yt-dlp: 'pip install --upgrade yt-dlp'", <<>>)
    ELSE IF Contains(error_msg, <<"P","r","i","v","a","t","e"," ","v","i","d","e","o">>) \/ Contains(Lower(error_msg), <<"p","r","i","v","a","t","e">>)
    THEN Fail("This video is private", <<>>)
    ELSE IF Contains(error_msg, <<"V","i","d","e","o"," ","u","n","a","v","a","i","l","a","b","l","e">>)
            \/ Contains(Lower(error_msg), <<"u","n","a","v","a","i","l","a","b","l","e">>)
    THEN Fail("Video unavailable or removed", <<>>)
    ELSE IF Contains(error_msg, <<"S","i","g","n"," ","i","n"," ","t","o"," ","c","o","n","f","i","r","m"," ","y","o","u","r"," ","a","g","e">>)
            \/ Contains(Lower(error_msg), <<"a","g","e">>)
    THEN Fail("Age-restricted content", <<>>)
    ELSE IF Contains(error_msg, <<"U","n","s","u","p","p","o","r","t","e","d"," ","U","R","L">>)
    THEN Fail("Unsupported URL. Please ensure you paste a specific video link, not a homepage.", <<>>)
    ELSE Fail("Download error: ", error_msg)

ClassifyExceptionRaw(msg) == Fail("", msg)

\* lines 370-371: except Exception as e
ClassifyException(msg) == Fail("Unexpected error: ", msg)

FallbackOptsRebuilt(o) ==
    [format |-> <<"best", "best">>, outtmpl |-> o.outtmpl, quiet |-> o.quiet,
     no_warnings |-> o.no_warnings, noplaylist |-> o.noplaylist,
     http_headers |-> o.http_headers]

\* lines 339-342: the options of the fallback attempt
FallbackOpts(o) ==
    LET o1 == DictSet(o, "format", <<"best", "best">>)
    IN  IF "merge_output_format" \in DOMAIN o1 THEN DictDel(o1, "merge_output_format")
        ELSE o1

InnerHandlerFormatFirst(error_msg) ==
    IF IsFormatError(error_msg) THEN "fallback"
    ELSE IF Contains(error_msg, SIGI) THEN "return"
    ELSE "raise"

InnerHandlerNoFallback(error_msg) ==
    IF Contains(error_msg, SIGI) THEN "return" ELSE "raise"

InnerHandlerAnyError(error_msg) ==
    IF Contains(error_msg, SIGI) THEN "return" ELSE "fallback"

\* lines 331-354: except yt_dlp.utils.DownloadError as format_error.
\* "return": the handler returns; "fallback": attempt 2 follows; "raise": re-raised
InnerHandler(error_msg) ==
    IF Contains(error_msg, SIGI) THEN "return"
    ELSE IF IsFormatError(error_msg) THEN "fallback"
    ELSE "raise"

Invocation(p, o) == [opts |-> opts[p], url |-> sanitize_url(req[p].url), outcome |-> o]

\* lines 308-311: the content-URL check on the sanitized URL
PassesContentCheckAnyPlatform(r) ==
    is_valid_content_url(sanitize_url(r.url), detect_platform(sanitize_url(r.url)))

PassesContentCheckWithoutPlatform(r) ==
    r.platform = NoPlatform \/ is_valid_content_url(sanitize_url(r.url), r.platform)

PassesContentCheck(r) == is_valid_content_url(sanitize_url(r.url), r.platform)

\* lines 306-316: sanitize, the content-URL check, the engine options
Validate(p) ==
    /\ pc[p] = "dv_validate"
    /\ LET r == req[p]
       IN  IF ~PassesContentCheck(r)
           THEN /\ result' = [result EXCEPT ![p] =
                       Fail("Invalid URL: This is not a specific video link.", <<>>)]
                /\ pc' = [pc EXCEPT ![p] = "dv_return"]
                /\ UNCHANGED opts
           ELSE /\ opts' = [opts EXCEPT ![p] =
                       LET o == get_base_opts(r.quality, r.extract_audio, r.platform)
                       IN  IF r.progress_hook # NoHook
                           THEN DictSet(o, "progress_hooks", r.progress_hook)
                           ELSE o]
                /\ pc' = [pc EXCEPT ![p] = "dv_attempt1"]
                /\ UNCHANGED result
    /\ UNCHANGED <<download_in_progress, download_history, files, req, engineLog, started>>
    /\ UNCHANGED <<preview, args, ret>>

\* lines 318-342 and 354-371: the first engine invocation and the handling
\* of what it raises
Attempt1(p, Outcomes) ==
    /\ pc[p] = "dv_attempt1"
    /\ \E o \in Outcomes :
        /\ engineLog' = [engineLog EXCEPT ![p] = Append(@, Invocation(p, o))]
        /\ IF o.kind = "ok"
           THEN /\ files' = files \cup WrittenBy(o)
                /\ result' = [result EXCEPT ![p] =
                       AfterExtract(o, req[p].extract_audio, files')]
                /\ pc' = [pc EXCEPT ![p] = "dv_return"]
                /\ UNCHANGED opts
           ELSE IF o.kind = "DownloadError" /\ InnerHandler(o.msg) = "fallback"
           THEN /\ opts' = [opts EXCEPT ![p] = FallbackOpts(@)]
                /\ pc' = [pc EXCEPT ![p] = "dv_attempt2"]
                /\ UNCHANGED <<files, result>>
           ELSE /\ result' = [result EXCEPT ![p] =
                       IF o.kind = "Exception" THEN ClassifyException(o.msg)
                       ELSE IF InnerHandler(o.msg) = "return"
                       THEN Fail("TikTok Security Update. Please update 'yt-dlp': 'pip install --upgrade yt-dlp'", <<>>)
                       ELSE ClassifyDownloadError(o.msg)]
                /\ pc' = [pc EXCEPT ![p] = "dv_return"]
                /\ UNCHANGED <<files, opts>>
    /\ UNCHANGED <<download_in_progress, download_history, req, started>>
    /\ UNCHANGED <<preview, args, ret>>

\* lines 344-352 and 356-371: the fallback invocation, made inside the inner
\* handler; what it raises reaches the outer handlers only
Attempt2(p, Outcomes) ==
    /\ pc[p] = "dv_attempt2"
    /\ \E o \in Outcomes :
        /\ engineLog' = [engineLog EXCEPT ![p] = Append(@, Invocation(p, o))]
        /\ IF o.kind = "ok"
           THEN /\ files' = files \cup WrittenBy(o)
                /\ result' = [result EXCEPT ![p] =
                       AfterExtract(o, req[p].extract_audio, files')]
           ELSE /\ result' = [result EXCEPT ![p] =
                       IF o.kind = "Exception" THEN ClassifyException(o.msg)
                       ELSE ClassifyDownloadError(o.msg)]
                /\ UNCHANGED files
        /\ pc' = [pc EXCEPT ![p] = "dv_return"]
    /\ UNCHANGED <<download_in_progress, download_history, req, opts, started>>
    /\ UNCHANGED <<preview, args, ret>>

-----------------------------------------------------------------------------
(* Callers of download_video *)

U_YT == <<"h","t","t","p","s",":","/","/","w","w","w",".","y","o","u","t","u","b","e",".","c","o","m","/","w","a","t","c","h","?","v","=","a","b","c","d","e","f","g","h","i","j","k">>
U_TT == <<" ","w","w","w",".","T","i","k","T","o","k",".","c","o","m","/","@","u","/","v","i","d","e","o","/","1","/">>
U_X == <<"h","t","t","p","s",":","/","/","x",".","c","o","m","/","u","/","s","t","a","t","u","s","/","1">>
U_EXPLORE == <<"h","t","t","p","s",":","/","/","w","w","w",".","t","i","k","t","o","k",".","c","o","m","/","e","x","p","l","o","r","e">>
U_HOME == <<"h","t","t","p","s",":","/","/","w","w","w",".","t","i","k","t","o","k",".","c","o","m","/">>
U_OTHER == <<"h","t","t","p","s",":","/","/","e","x","a","m","p","l","e",".","c","o","m","/","v">>
U_HOME_BARE == <<"h","t","t","p","s",":","/","/","w","w","w",".","t","i","k","t","o","k",".","c","o","m">>
U_HOME_LANG == <<"h","t","t","p","s",":","/","/","w","w","w",".","t","i","k","t","o","k",".","c","o","m","/","?","l","a","n","g","=","e","n">>
U_HOME_VM == <<"h","t","t","p","s",":","/","/","w","w","w",".","t","i","k","t","o","k",".","c","o","m","/","?","q","=","v","m",".","t","i","k","t","o","k",".","c","o","m","/","a">>
U_EXPLORE_VIDEO == <<"h","t","t","p","s",":","/","/","w","w","w",".","t","i","k","t","o","k",".","c","o","m","/","@","u","/","v","i","d","e","o","/","1","/","E","x","p","l","o","r","e">>

DirectUrls ==
    {U_YT, U_TT, U_EXPLORE, U_HOME, U_OTHER, <<>>,
     U_HOME_BARE, U_HOME_LANG, U_HOME_VM, U_EXPLORE_VIDEO}
DirectPlatforms == KnownPlatforms \cup {NoPlatform, "vimeo"}
DirectQualities == {"720p", "4k"}
Hooks == {NoHook, "my_hook"}

Request(url, quality, extract_audio, progress_hook, platform) ==
    [url |-> url, quality |-> quality, extract_audio |-> extract_audio,
     progress_hook |-> progress_hook, platform |-> platform]

\* a direct call download_video(url, quality, extract_audio, progress_hook, platform)
CallDownloadVideo(p) ==
    /\ pc[p] = "idle"
    /\ started = 0
    /\ \E url \in DirectUrls, quality \in DirectQualities, extract_audio \in BOOLEAN,
          progress_hook \in Hooks, platform \in DirectPlatforms :
          req' = [req EXCEPT ![p] =
                     Request(url, quality, extract_audio, progress_hook, platform)]
    /\ pc' = [pc EXCEPT ![p] = "dv_validate"]
    /\ started' = started + 1
    /\ UNCHANGED <<download_in_progress, download_history, files, opts, engineLog, result>>
    /\ UNCHANGED <<preview, args, ret>>

SessionUrls == {sanitize_url(U_TT), U_EXPLORE, U_OTHER}

SessionOutcomes ==
    { [kind |-> "ok", title |-> "A", ext |-> "mp4", wrote |-> {"mp4", "mp3"}],
      [kind |-> "ok", title |-> "A", ext |-> "mp4", wrote |-> {}],
      [kind |-> "DownloadError", msg |-> FORMAT_NA],
      [kind |-> "DownloadError", msg |-> <<"P","r","i","v","a","t","e"," ","v","i","d","e","o">>],
      [kind |-> "Exception", msg |-> <<>>] }

\* render_download_section lines 439-464: what the page offers for a submitted
\* URL; the download button exists only for a detected platform and a URL
\* that passes is_valid_content_url
Offered(target_url) ==
    LET platform_detected == detect_platform(target_url)
    IN  IF platform_detected # NoPlatform
           /\ is_valid_content_url(target_url, platform_detected)
        THEN {platform_detected} ELSE {}

SessionTargets ==
    UNION {{[url |-> u, platform |-> pl] : pl \in Offered(u)} : u \in SessionUrls}

\* what the probe extract_info(download=False) of get_video_info can do
ProbeOutcomes ==
    { [kind |-> "ok", title |-> "A"],
      [kind |-> "DownloadError", msg |-> FORMAT_NA],
      [kind |-> "Exception", msg |-> <<>>] }

NoInfo == [kind |-> "None"]
Info(title) == [kind |-> "info", title |-> title]

get_video_info_raises(o) ==
    IF o.kind = "ok" THEN Info(o.title)
    ELSE IF o.kind = "DownloadError" THEN NoInfo
    ELSE [kind |-> "raised", msg |-> o.msg]

\* DownloadManager.get_video_info: the info dict, or None on any Exception
get_video_info(o) == IF o.kind = "ok" THEN Info(o.title) ELSE NoInfo

\* the preview of a script run: what the probe did and what get_video_info returned
NoPreview == [probe |-> "None", info |-> NoInfo]
Preview(o) == [probe |-> o.kind, info |-> get_video_info(o)]

\* handle_download line 502: st.session_state.get('download_in_progress')
InProgressIgnored(flag) == FALSE

InProgress(flag) == flag

\* render_download_section lines 470-499 and handle_download lines 502-504:
\* a script run in which Start Download is pressed: the preview probe, the
\* button, then the in-progress check.  A rejected run ends at line 504 and
\* its preview ends with it.
StartDownload(p) ==
    /\ pc[p] \in {"idle", "done", "rejected"}
    /\ started < MaxStarted
    /\ started' = started + 1
    /\ IF InProgress(download_in_progress)
       THEN /\ pc' = [pc EXCEPT ![p] = "rejected"]
            /\ UNCHANGED <<req, preview>>
       ELSE /\ pc' = [pc EXCEPT ![p] = "hd_set"]
            /\ \E t \in SessionTargets, extract_audio \in BOOLEAN :
                  req' = [req EXCEPT ![p] =
                     Request(t.url, "best", extract_audio, "my_hook", t.platform)]
            /\ \E o \in ProbeOutcomes : preview' = [preview EXCEPT ![p] = Preview(o)]
    /\ UNCHANGED <<download_in_progress, download_history, files, opts, engineLog, result>>
    /\ UNCHANGED <<args, ret>>

\* handle_download line 506, then the call of download_video
SetInProgress(p) ==
    /\ pc[p] = "hd_set"
    /\ download_in_progress' = TRUE
    /\ pc' = [pc EXCEPT ![p] = "dv_validate"]
    /\ UNCHANGED <<download_history, files, req, opts, engineLog, result, started>>
    /\ UNCHANGED <<preview, args, ret>>

HistoryItem(r, res) ==
    [url |-> r.url, platform |-> r.platform, title |-> res.message.arg,
     filepath |-> res.filepath]

AppendAlways(history, r, res) == Append(history, HistoryItem(r, res))

\* handle_download lines 532-543: the history after download_video returned
AppendOnSuccess(history, r, res) ==
    IF res.success /\ res.filepath # NoFile
    THEN Append(history, HistoryItem(r, res))
    ELSE history

ClearedOnReturnOnly(flag, raised) == IF raised THEN flag ELSE FALSE

\* handle_download lines 561-562: the finally clause runs however the try
\* block is left, by its end or by an exception
Finally(flag, raised) == FALSE

\* handle_download lines 530-562: the history entry, then the finally clause
Finish(p) ==
    /\ pc[p] = "dv_return"
    /\ download_history' = AppendOnSuccess(download_history, req[p], result[p])
    /\ download_in_progress' = Finally(download_in_progress, FALSE)
    /\ pc' = [pc EXCEPT ![p] = "done"]
    /\ req' = [req EXCEPT ![p] = NoReq]
    /\ opts' = [opts EXCEPT ![p] = NoOpts]
    /\ engineLog' = [engineLog EXCEPT ![p] = <<>>]
    /\ result' = [result EXCEPT ![p] = NoResult]
    /\ preview' = [preview EXCEPT ![p] = NoPreview]
    /\ UNCHANGED <<files, started, args, ret>>

\* where a call is between line 506 and the end of the finally clause
InTry == {"dv_validate", "dv_attempt1", "dv_attempt2", "dv_return"}

\* handle_download lines 509-562: an exception leaves the try block.  Inside
\* download_video only a BaseException that is no Exception gets out (lines
\* 356-371 catch the rest); after its return any statement of lines 530-557
\* can raise, before the append of line 543 or after it.  The except clause
\* of line 559 only reports; the finally clause runs in every case.
Raise(p) ==
    /\ pc[p] \in InTry
    /\ \E appended \in BOOLEAN :
          /\ appended => pc[p] = "dv_return"
          /\ download_history' =
                IF appended
                THEN AppendOnSuccess(download_history, req[p], result[p])
                ELSE download_history
    /\ download_in_progress' = Finally(download_in_progress, TRUE)
    /\ pc' = [pc EXCEPT ![p] = "done"]
    /\ req' = [req EXCEPT ![p] = NoReq]
    /\ opts' = [opts EXCEPT ![p] = NoOpts]
    /\ engineLog' = [engineLog EXCEPT ![p] = <<>>]
    /\ result' = [result EXCEPT ![p] = NoResult]
    /\ preview' = [preview EXCEPT ![p] = NoPreview]
    /\ UNCHANGED <<files, started, args, ret>>

DeleteKeepsFile(disk, fpath) == disk

\* render_history lines 593-594: os.remove when the file exists
RemoveIfExists(disk, fpath) == IF fpath \in disk THEN disk \ {fpath} ELSE disk

\* render_history line 572: the entries that are shown, history[-5:]
Shown(history) == {i \in DOMAIN history : i > Len(history) - 5}

RemainingButClicked(history, i, fpath) ==
    [j \in 1..(Len(history) - 1) |-> IF j < i THEN history[j] ELSE history[j + 1]]

\* render_history lines 590-592: the history without the entries whose
\* filepath is that of the clicked entry i
Remaining(history, i, fpath) == SelectSeq(history, LAMBDA h : h.filepath # fpath)

\* render_history lines 589-595: the delete button of a shown entry
DeleteEntry(i) ==
    /\ i \in Shown(download_history)
    /\ LET fpath == download_history[i].filepath
       IN  /\ download_history' = Remaining(download_history, i, fpath)
           /\ files' = RemoveIfExists(files, fpath)
    /\ UNCHANGED <<download_in_progress, pc, req, opts, engineLog, result, started>>
    /\ UNCHANGED <<preview, args, ret>>

-----------------------------------------------------------------------------
(* Specifications *)

\* main lines 603-606: a fresh session, no call made
Fresh ==
    /\ download_in_progress = FALSE
    /\ download_history = <<>>
    /\ files = {}
    /\ pc = [p \in Procs |-> "idle"]
    /\ req = [p \in Procs |-> NoReq]
    /\ opts = [p \in Procs |-> NoOpts]
    /\ engineLog = [p \in Procs |-> <<>>]
    /\ result = [p \in Procs |-> NoResult]
    /\ started = 0
    /\ preview = [p \in Procs |-> NoPreview]

Init ==
    /\ Fresh
    /\ args = NoArgs
    /\ ret = <<>>

\* one direct call of download_video, every engine behaviour
Next ==
    \/ CallDownloadVideo(1)
    \/ Validate(1)
    \/ Attempt1(1, EngineOutcomes)
    \/ Attempt2(1, EngineOutcomes)

Spec == Init /\ [][Next]_vars

\* a session: script runs that press Start Download
NextSession ==
    \E p \in Procs :
        \/ StartDownload(p)
        \/ SetInProgress(p)
        \/ Validate(p)
        \/ Attempt1(p, SessionOutcomes)
        \/ Attempt2(p, SessionOutcomes)
        \/ Finish(p)

SpecSession == Init /\ [][NextSession]_vars

\* a session with its history panel: one script run at a time presses
\* Start Download, and the delete buttons of the panel
NextHistory ==
    \/ StartDownload(1)
    \/ SetInProgress(1)
    \/ Validate(1)
    \/ Attempt1(1, SessionOutcomes)
    \/ Attempt2(1, SessionOutcomes)
    \/ Finish(1)
    \/ \E i \in 1..MaxStarted : DeleteEntry(i)

SpecHistory == Init /\ [][NextHistory]_vars

\* main lines 617-618: render_history runs after render_download_section has
\* returned, so within the script runs of a session a delete is handled when
\* no call of handle_download is under way
DeleteBetweenCalls(i) ==
    /\ pc[1] \in {"idle", "done", "rejected"}
    /\ DeleteEntry(i)

\* a session whose script runs follow one another: downloads and deletes
NextSequence ==
    \/ StartDownload(1)
    \/ SetInProgress(1)
    \/ Validate(1)
    \/ Attempt1(1, SessionOutcomes)
    \/ Attempt2(1, SessionOutcomes)
    \/ Finish(1)
    \/ \E i \in 1..MaxStarted : DeleteBetweenCalls(i)

SpecSequence == Init /\ [][NextSequence]_vars

\* the statements of one call of handle_download after its check of line 502
Run(p) ==
    \/ SetInProgress(p)
    \/ Validate(p)
    \/ Attempt1(p, SessionOutcomes)
    \/ Attempt2(p, SessionOutcomes)
    \/ Finish(p)

\* a session whose calls can also be left by an exception
NextLive ==
    \E p \in Procs :
        \/ StartDownload(p)
        \/ Run(p)
        \/ Raise(p)

\* the positions of a call
Labels == {"idle", "rejected", "hd_set", "dv_validate", "dv_attempt1",
           "dv_attempt2", "dv_return", "done"}

\* call p leaves the statement it is at, by executing it or by an exception:
\* in a behaviour of NextLive these are the steps of Run(p) and Raise(p)
Advance(p) ==
    /\ pc[p] \in {"hd_set"} \cup InTry
    /\ \E l \in Labels \ {pc[p]} : pc' = [pc EXCEPT ![p] = l]

\* a call that was accepted keeps executing: no statement of the handler and
\* no engine call blocks forever, each returns or raises
Fairness == \A p \in Procs : WF_pc(Advance(p))

SpecLive == Init /\ [][NextLive]_vars /\ Fairness

-----------------------------------------------------------------------------
(* The pure functions, applied to arguments drawn at the start *)

session == <<download_in_progress, download_history, files, pc, req, opts,
             engineLog, result, started, preview>>

\* URLProcessor.sanitize_url applied to a string, then to what it returned
Schemes == {<<>>, <<"/">>, <<"/","/">>, <<"h","t","t","p",":","/","/">>, <<"h","t","t","p","s",":","/","/">>, <<" ","H","T","T","P",":","/","/">>}
Hosts == {<<"a",".","c","o","m">>, <<"y","o","u","t","u",".","b","e">>}
Paths == {<<>>, <<"/">>, <<"/","b">>, <<"/","b","/">>, <<"/","b","/","/">>, <<"/","b","/","c","/">>, <<"/","b"," ","/","c">>}

NormalizeInputs ==
    {s \o h \o p : s \in Schemes, h \in Hosts, p \in Paths}
    \cup {<<>>, <<" ">>, <<"/","/","/">>, <<"/","/","/","/">>}

InitNormalize ==
    /\ Fresh
    /\ args \in {[url |-> u] : u \in NormalizeInputs}
    /\ ret = <<>>

ApplySanitize ==
    /\ Len(ret) < MaxApply
    /\ ret' = Append(ret, sanitize_url(IF ret = <<>> THEN args.url ELSE ret[Len(ret)]))
    /\ UNCHANGED <<session, args>>

NextNormalize == ApplySanitize

SpecNormalize == InitNormalize /\ [][NextNormalize]_vars

\* one URL of each form that PLATFORM_PATTERNS declares
DeclaredForms ==
    { [platform |-> "youtube", url |-> <<"h","t","t","p","s",":","/","/","w","w","w",".","y","o","u","t","u","b","e",".","c","o","m","/","w","a","t","c","h","?","v","=","a","b","c","d","e","f","g","h","i","j","k">>],
      [platform |-> "youtube", url |-> <<"h","t","t","p","s",":","/","/","y","o","u","t","u",".","b","e","/","a","b","c","d","e","f","g","h","i","j","k">>],
      [platform |-> "youtube", url |-> <<"h","t","t","p","s",":","/","/","w","w","w",".","y","o","u","t","u","b","e",".","c","o","m","/","e","m","b","e","d","/","a","b","c","d","e","f","g","h","i","j","k">>],
      [platform |-> "youtube", url |-> <<"h","t","t","p","s",":","/","/","w","w","w",".","y","o","u","t","u","b","e",".","c","o","m","/","v","/","a","b","c","d","e","f","g","h","i","j","k">>],
      [platform |-> "youtube", url |-> <<"h","t","t","p","s",":","/","/","w","w","w",".","y","o","u","t","u","b","e",".","c","o","m","/","s","h","o","r","t","s","/","a","b","c","d","e","f","g","h","i","j","k">>],
      [platform |-> "tiktok", url |-> <<"h","t","t","p","s",":","/","/","w","w","w",".","t","i","k","t","o","k",".","c","o","m","/","@","u","/","v","i","d","e","o","/","1">>],
      [platform |-> "tiktok", url |-> <<"h","t","t","p","s",":","/","/","v","m",".","t","i","k","t","o","k",".","c","o","m","/","a">>],
      [platform |-> "tiktok", url |-> <<"h","t","t","p","s",":","/","/","v","t",".","t","i","k","t","o","k",".","c","o","m","/","a">>],
      [platform |-> "instagram", url |-> <<"h","t","t","p","s",":","/","/","w","w","w",".","i","n","s","t","a","g","r","a","m",".","c","o","m","/","p","/","a">>],
      [platform |-> "instagram", url |-> <<"h","t","t","p","s",":","/","/","w","w","w",".","i","n","s","t","a","g","r","a","m",".","c","o","m","/","r","e","e","l","/","a">>],
      [platform |-> "instagram", url |-> <<"h","t","t","p","s",":","/","/","w","w","w",".","i","n","s","t","a","g","r","a","m",".","c","o","m","/","t","v","/","a">>],
      [platform |-> "facebook", url |-> <<"h","t","t","p","s",":","/","/","w","w","w",".","f","a","c","e","b","o","o","k",".","c","o","m","/","w","a","t","c","h","/","?","v","=","1">>],
      [platform |-> "facebook", url |-> <<"h","t","t","p","s",":","/","/","w","w","w",".","f","a","c","e","b","o","o","k",".","c","o","m","/","u","/","v","i","d","e","o","s","/","1">>],
      [platform |-> "facebook", url |-> <<"h","t","t","p","s",":","/","/","f","b",".","w","a","t","c","h","/","a">>],
      [platform |-> "twitter", url |-> <<"h","t","t","p","s",":","/","/","t","w","i","t","t","e","r",".","c","o","m","/","u","/","s","t","a","t","u","s","/","1">>],
      [platform |-> "twitter", url |-> U_X],
      [platform |-> "snapchat", url |-> <<"h","t","t","p","s",":","/","/","w","w","w",".","s","n","a","p","c","h","a","t",".","c","o","m","/","t","/","a">>],
      [platform |-> "snapchat", url |-> <<"h","t","t","p","s",":","/","/","w","w","w",".","s","n","a","p","c","h","a","t",".","c","o","m","/","a","d","d","/","u">>] }

InitDetect ==
    /\ Fresh
    /\ args \in {[url |-> f.url, declared |-> f.platform, platform |-> pl] :
                    f \in DeclaredForms, pl \in KnownPlatforms \cup {NoPlatform}}
    /\ ret = <<>>

Called(fn) == \E i \in DOMAIN ret : ret[i].fn = fn

ApplyDetect ==
    /\ ~Called("detect_platform")
    /\ ret' = Append(ret, [fn |-> "detect_platform", value |-> detect_platform(args.url)])
    /\ UNCHANGED <<session, args>>

ApplyIsValid ==
    /\ ~Called("is_valid_content_url")
    /\ ret' = Append(ret, [fn |-> "is_valid_content_url",
                           value |-> is_valid_content_url(args.url, args.platform)])
    /\ UNCHANGED <<session, args>>

NextDetect == ApplyDetect \/ ApplyIsValid

SpecDetect == InitDetect /\ [][NextDetect]_vars

\* DownloadManager._get_format_selector applied to any quality key, with and
\* without audio extraction, for any platform
SelectQualities == Qualities \cup {"4k", "BEST"}

InitSelect ==
    /\ Fresh
    /\ args \in [quality : SelectQualities, extract_audio : BOOLEAN,
                  platform : DirectPlatforms]
    /\ ret = <<>>

ApplySelect ==
    /\ ret = <<>>
    /\ ret' = <<get_format_selector(args.quality, args.extract_audio, args.platform)>>
    /\ UNCHANGED <<session, args>>

NextSelect == ApplySelect

SpecSelect == InitSelect /\ [][NextSelect]_vars

-----------------------------------------------------------------------------
(* Vocabulary of the properties *)

\* the reason code of a Failure, read off the message download_video returns
ReasonCode(res) ==
    LET t == res.message.text
    IN  IF t = "Invalid URL: This is not a specific video link." THEN "invalid_content_url"
        ELSE IF t = "TikTok Security Update. Please update 'yt-dlp': 'pip install --upgrade yt-dlp'"
        THEN "extractor_outdated"
        ELSE IF t = "TikTok API Changed. Update yt-dlp: 'pip install --upgrade yt-dlp'"
        THEN "extractor_outdated"
        ELSE IF t = "This video is private" THEN "private_video"
        ELSE IF t = "Video unavailable or removed" THEN "video_unavailable"
        ELSE IF t = "Age-restricted content" THEN "age_restricted"
        ELSE IF t = "Unsupported URL. Please ensure you paste a specific video link, not a homepage."
        THEN "unsupported_url"
        ELSE IF t = "File not found after download" THEN "artifact_missing"
        ELSE IF t = "Download error: " THEN "unknown_download_error"
        ELSE IF t = "Unexpected error: " THEN "unexpected_error"
        ELSE "unclassified"

ReasonCodes ==
    {"invalid_content_url", "extractor_outdated", "private_video", "video_unavailable",
     "age_restricted", "unsupported_url", "artifact_missing", "unknown_download_error",
     "unexpected_error"}

Returned(p) == pc[p] = "dv_return"
Calls(p) == Len(engineLog[p])
Outcome(p, i) == engineLog[p][i].outcome
IsFailure(p, reason) == ~result[p].success /\ ReasonCode(result[p]) = reason

\* the engine messages that contain sub, compared in lower case when lower
WithText(sub, lower) ==
    UNION {IF Contains(IF lower THEN Lower(m) ELSE m, sub) THEN {m} ELSE {} :
              m \in Messages \cup ExcMessages}

MarkerMessages == WithText(SIGI, FALSE)
FormatMessages == WithText(<<"f","o","r","m","a","t">>, TRUE)
PrivateMessages == WithText(<<"p","r","i","v","a","t","e">>, TRUE)
UnavailableMessages == WithText(<<"u","n","a","v","a","i","l","a","b","l","e">>, TRUE)
AgeMessages == WithText(<<"a","g","e">>, TRUE)
UnsupportedMessages == WithText(<<"U","n","s","u","p","p","o","r","t","e","d"," ","U","R","L">>, FALSE)

HasMarker(m) == m \in MarkerMessages
HasFormat(m) == m \in FormatMessages
HasPrivate(m) == m \in PrivateMessages
HasUnavailable(m) == m \in UnavailableMessages
HasAge(m) == m \in AgeMessages
HasUnsupported(m) == m \in UnsupportedMessages

\* the file whose existence decides Success after a normal return
ExpectedFile(p, o) == File(o.title, IF req[p].extract_audio THEN "mp3" ELSE o.ext)

GenericBest == <<"best", "best">>

-----------------------------------------------------------------------------
(* C1 *)

\* C1: when attempt 1 raises a download error that contains "format" and not
\* the extractor-outdated marker, a second invocation is made with the
\* generic-best format; if that one returns normally and its file exists,
\* download_video returns Success, after exactly two invocations.
C1_FormatFallbackSucceeds ==
    \A p \in Procs :
        (/\ Returned(p)
         /\ Calls(p) >= 1
         /\ Outcome(p, 1).kind = "DownloadError"
         /\ HasFormat(Outcome(p, 1).msg)
         /\ ~HasMarker(Outcome(p, 1).msg))
        => /\ Calls(p) = 2
           /\ engineLog[p][2].opts.format = GenericBest
           /\ (Outcome(p, 2).kind = "ok" /\ ExpectedFile(p, Outcome(p, 2)) \in files
                  => result[p].success)

C1_Witness ==
    \E p \in Procs :
        /\ Returned(p)
        /\ Calls(p) = 2
        /\ Outcome(p, 1).kind = "DownloadError"
        /\ HasFormat(Outcome(p, 1).msg)
        /\ Outcome(p, 2).kind = "ok"
        /\ result[p].success

-----------------------------------------------------------------------------
(* C2 *)

\* C2 as stated: every download error of attempt 1 that contains
\* "Private video" ends in Failure private_video after exactly one invocation,
\* whatever else the message contains.
C2_PrivateNeverRetried ==
    \A p \in Procs :
        (/\ Returned(p)
         /\ Calls(p) >= 1
         /\ Outcome(p, 1).kind = "DownloadError"
         /\ Contains(Outcome(p, 1).msg, <<"P","r","i","v","a","t","e"," ","v","i","d","e","o">>))
        => /\ IsFailure(p, "private_video")
           /\ Calls(p) = 1

\* C2 amended: a download error of attempt 1 that contains "Private video",
\* and neither the extractor-outdated marker nor "format" in any letter case,
\* ends in Failure private_video after exactly one invocation.
C2_PrivateWithoutFormatNeverRetried ==
    \A p \in Procs :
        (/\ Returned(p)
         /\ Calls(p) >= 1
         /\ Outcome(p, 1).kind = "DownloadError"
         /\ Contains(Outcome(p, 1).msg, <<"P","r","i","v","a","t","e"," ","v","i","d","e","o">>)
         /\ ~HasMarker(Outcome(p, 1).msg)
         /\ ~HasFormat(Outcome(p, 1).msg))
        => /\ IsFailure(p, "private_video")
           /\ Calls(p) = 1

C2_Witness ==
    \E p \in Procs :
        /\ Returned(p)
        /\ Calls(p) = 1
        /\ Outcome(p, 1).kind = "DownloadError"
        /\ Contains(Outcome(p, 1).msg, <<"P","r","i","v","a","t","e"," ","v","i","d","e","o">>)
        /\ HasUnavailable(Outcome(p, 1).msg)
        /\ IsFailure(p, "private_video")

-----------------------------------------------------------------------------
(* C3 *)

\* the requests whose normalized URL is a content URL of the given platform
ContentRequests ==
    UNION {IF is_valid_content_url(sanitize_url(u), pl) THEN {<<u, pl>>} ELSE {} :
              u \in DirectUrls \cup SessionUrls, pl \in DirectPlatforms}

RequestIsContent(p) == <<req[p].url, req[p].platform>> \in ContentRequests

\* C3: the engine is never invoked before the content-URL check, nor for a
\* request whose normalized URL fails is_valid_content_url for the given
\* platform; such a request returns Failure invalid_content_url.
C3_InvalidContentUrlFailsFast ==
    \A p \in Procs :
        /\ pc[p] \in {"idle", "dv_validate"} => Calls(p) = 0
        /\ (pc[p] \in {"dv_attempt1", "dv_attempt2", "dv_return"} /\ ~RequestIsContent(p))
              => /\ Returned(p)
                 /\ Calls(p) = 0
                 /\ IsFailure(p, "invalid_content_url")

C3_Witness ==
    \E p \in Procs :
        /\ Returned(p)
        /\ req[p].platform # NoPlatform
        /\ detect_platform(sanitize_url(req[p].url)) # NoPlatform
        /\ ~RequestIsContent(p)
        /\ IsFailure(p, "invalid_content_url")

-----------------------------------------------------------------------------
(* C4 *)

\* C4: a handle_download call that starts while download_in_progress is true
\* is rejected at once: it invokes no engine, appends nothing to the history,
\* writes no file, leaves the flag true, and is not kept for later (a rejected
\* call does nothing more; only a new button press leaves that state).
C4_RejectedWhileInProgress ==
    [][ /\ (download_in_progress /\ started' # started)
            => /\ \E p \in Procs :
                    /\ pc'[p] = "rejected"
                    /\ \A q \in Procs \ {p} : pc'[q] = pc[q]
               /\ download_in_progress'
               /\ UNCHANGED <<download_history, files, engineLog, req, opts, result>>
        /\ \A p \in Procs :
              (pc[p] = "rejected" /\ pc'[p] # "rejected") => started' # started
      ]_vars

C4_Witness ==
    \E p, q \in Procs :
        /\ pc[p] = "rejected"
        /\ pc[q] = "dv_attempt1"
        /\ download_in_progress
        /\ Calls(p) = 0

-----------------------------------------------------------------------------
(* C5 *)

Running == {p \in Procs : pc[p] \in {"dv_validate", "dv_attempt1", "dv_attempt2", "dv_return"}}

\* C5: at most one call is between setting the in-progress flag and clearing
\* it, so at most one engine download runs at a time.
C5_AtMostOneRunning == Cardinality(Running) <= 1

-----------------------------------------------------------------------------
(* C6 *)

\* C6: whatever the engine does in attempt 1 and attempt 2 (a normal return,
\* a download error with any message, any other exception), download_video
\* is never stuck in an attempt, and what it returns is Success or
\* a Failure with a non-empty message and one of the nine reason codes; an
\* exception that is not a download error gives unexpected_error.
C6_TypedOutcome ==
    \A p \in Procs :
        /\ pc[p] = "dv_attempt1" => ENABLED Attempt1(p, EngineOutcomes)
        /\ pc[p] = "dv_attempt2" => ENABLED Attempt2(p, EngineOutcomes)
        /\ Returned(p) =>
              /\ result[p].success \in BOOLEAN
              /\ ~result[p].success =>
                    /\ result[p].message.text # ""
                    /\ ReasonCode(result[p]) \in ReasonCodes
                    /\ result[p].filepath = NoFile
              /\ (Calls(p) >= 1 /\ Outcome(p, Calls(p)).kind = "Exception")
                    => IsFailure(p, "unexpected_error")

C6_Witness ==
    \E p \in Procs :
        /\ Returned(p)
        /\ Calls(p) = 2
        /\ Outcome(p, 2).kind = "Exception"
        /\ HasPrivate(Outcome(p, 2).msg)
        /\ IsFailure(p, "unexpected_error")

-----------------------------------------------------------------------------
(* C7 *)

HasMerge(o) == "merge_output_format" \in DOMAIN o

\* C7 as stated: the options of attempt 1 carry the merge-to-mp4 directive
\* exactly when the request is not audio-only and the platform is not tiktok.
C7_MergeUnlessAudioOrTikTok ==
    \A p \in Procs :
        Calls(p) >= 1 =>
            (HasMerge(engineLog[p][1].opts)
                <=> (~req[p].extract_audio /\ req[p].platform # "tiktok"))

\* C7 amended: the options of attempt 1 carry the merge-to-mp4 directive
\* exactly when the request is not audio-only, for tiktok as for every other
\* platform.
C7_MergeUnlessAudio ==
    \A p \in Procs :
        Calls(p) >= 1 =>
            /\ HasMerge(engineLog[p][1].opts) <=> ~req[p].extract_audio
            /\ HasMerge(engineLog[p][1].opts) => engineLog[p][1].opts.merge_output_format = "mp4"

C7_Witness ==
    \E p \in Procs :
        /\ Calls(p) >= 1
        /\ req[p].platform = "tiktok"
        /\ ~req[p].extract_audio
        /\ HasMerge(engineLog[p][1].opts)

-----------------------------------------------------------------------------
(* C8 *)

\* C8: the options of attempt 2 are those of attempt 1 with the format
\* replaced by the generic best and the merge directive removed; every other
\* option is present in both or in neither, with the same value.
C8_FallbackOptsFrame ==
    \A p \in Procs :
        Calls(p) = 2 =>
            LET o1 == engineLog[p][1].opts
                o2 == engineLog[p][2].opts
                others == (DOMAIN o1 \cup DOMAIN o2) \ {"format", "merge_output_format"}
            IN  /\ o2.format = GenericBest
                /\ ~HasMerge(o2)
                /\ \A k \in others : k \in DOMAIN o1 /\ k \in DOMAIN o2 /\ o1[k] = o2[k]
                /\ engineLog[p][2].url = engineLog[p][1].url

C8_Witness ==
    \E p \in Procs :
        /\ Calls(p) = 2
        /\ req[p].extract_audio
        /\ req[p].progress_hook # NoHook
        /\ "postprocessors" \in DOMAIN engineLog[p][2].opts
        /\ "progress_hooks" \in DOMAIN engineLog[p][2].opts

-----------------------------------------------------------------------------
(* C9 *)

\* C9: the engine is invoked at most twice; a second invocation follows only
\* a download error of the first whose message contains "format"; after the
\* second invocation download_video has returned, with the top-level
\* classification of what the second invocation raised.
C9_AtMostOneFallback ==
    \A p \in Procs :
        /\ Calls(p) <= 2
        /\ pc[p] = "dv_attempt2" => Calls(p) = 1
        /\ (Calls(p) = 2 \/ pc[p] = "dv_attempt2")
              => /\ Outcome(p, 1).kind = "DownloadError"
                 /\ HasFormat(Outcome(p, 1).msg)
        /\ Calls(p) = 2
              => /\ Returned(p)
                 /\ Outcome(p, 2).kind = "DownloadError"
                       => /\ ~result[p].success
                          /\ ReasonCode(result[p]) \in
                                {"extractor_outdated", "private_video", "video_unavailable",
                                 "age_restricted", "unsupported_url", "unknown_download_error"}
                 /\ (/\ Outcome(p, 2).kind = "DownloadError"
                     /\ Outcome(p, 2).msg = FORMAT_NA)
                       => IsFailure(p, "unknown_download_error")

C9_Witness ==
    \E p \in Procs :
        /\ Returned(p)
        /\ Calls(p) = 2
        /\ Outcome(p, 2).kind = "DownloadError"
        /\ HasFormat(Outcome(p, 2).msg)
        /\ IsFailure(p, "unknown_download_error")

-----------------------------------------------------------------------------
(* C10 *)

\* the rules of the top-level classification, in the order of the claim
FirstRule(m) ==
    IF HasMarker(m) THEN "extractor_outdated"
    ELSE IF HasPrivate(m) THEN "private_video"
    ELSE IF HasUnavailable(m) THEN "video_unavailable"
    ELSE IF HasAge(m) THEN "age_restricted"
    ELSE IF HasUnsupported(m) THEN "unsupported_url"
    ELSE "unknown_download_error"

\* the download error, if any, that reached the outer handler
ReachedTopLevel(p) ==
    /\ Returned(p)
    /\ Calls(p) >= 1
    /\ Outcome(p, Calls(p)).kind = "DownloadError"
    /\ Calls(p) = 1 => ~HasMarker(Outcome(p, 1).msg)

\* C10: a download error that reaches the top-level classification gets the
\* reason of the first matching rule in the order marker, "private",
\* "unavailable", "age", "Unsupported URL", and otherwise
\* unknown_download_error with the raw message.
C10_FirstMatchingRule ==
    \A p \in Procs :
        ReachedTopLevel(p) =>
            LET m == Outcome(p, Calls(p)).msg
            IN  /\ IsFailure(p, FirstRule(m))
                /\ FirstRule(m) = "unknown_download_error" => result[p].message.arg = m
                /\ HasUnsupported(m) =>
                      (IsFailure(p, "unsupported_url")
                          <=> ~(HasMarker(m) \/ HasPrivate(m) \/ HasUnavailable(m) \/ HasAge(m)))

C10_Witness ==
    \E p \in Procs :
        /\ ReachedTopLevel(p)
        /\ HasUnsupported(Outcome(p, Calls(p)).msg)
        /\ HasAge(Outcome(p, Calls(p)).msg)
        /\ IsFailure(p, "age_restricted")

-----------------------------------------------------------------------------
(* C11 *)

SecurityUpdateText ==
    "TikTok Security Update. Please update 'yt-dlp': 'pip install --upgrade yt-dlp'"

\* C11: when the download error of attempt 1 contains the extractor-outdated
\* marker, download_video returns Failure extractor_outdated with the upgrade
\* hint after exactly one invocation, also when the message contains "format".
C11_MarkerBeforeFormat ==
    \A p \in Procs :
        (/\ Calls(p) >= 1
         /\ Outcome(p, 1).kind = "DownloadError"
         /\ HasMarker(Outcome(p, 1).msg))
        => /\ Calls(p) = 1
           /\ Returned(p)
           /\ IsFailure(p, "extractor_outdated")
           /\ result[p].message.text = SecurityUpdateText

C11_Witness ==
    \E p \in Procs :
        /\ Returned(p)
        /\ Calls(p) = 1
        /\ Outcome(p, 1).kind = "DownloadError"
        /\ HasMarker(Outcome(p, 1).msg)
        /\ HasFormat(Outcome(p, 1).msg)
        /\ IsFailure(p, "extractor_outdated")

-----------------------------------------------------------------------------
(* C12 *)

LastOutcome(p) == Outcome(p, Calls(p))

\* C12: download_video returns Success only after an engine attempt that
\* returned normally and with the returned path (extension mp3 for an
\* audio-only request) existing on disk; a normal return without that file
\* gives Failure artifact_missing.  Attempt 1 and attempt 2 alike.
C12_SuccessOnlyWithFile ==
    \A p \in Procs :
        Returned(p) =>
            /\ result[p].success
                  => /\ Calls(p) >= 1
                     /\ LastOutcome(p).kind = "ok"
                     /\ result[p].filepath = ExpectedFile(p, LastOutcome(p))
                     /\ result[p].filepath \in files
            /\ (/\ Calls(p) >= 1
                /\ LastOutcome(p).kind = "ok"
                /\ ExpectedFile(p, LastOutcome(p)) \notin files)
                  => IsFailure(p, "artifact_missing")

C12_Witness ==
    \E p \in Procs :
        /\ Returned(p)
        /\ Calls(p) = 2
        /\ LastOutcome(p).kind = "ok"
        /\ req[p].extract_audio
        /\ File(LastOutcome(p).title, "mp4") \in files
        /\ ExpectedFile(p, LastOutcome(p)) \notin files
        /\ IsFailure(p, "artifact_missing")

-----------------------------------------------------------------------------
(* C13 *)

\* the step in which the handle_download call of p ends after download_video
\* returned
Ends(p) == pc[p] = "dv_return" /\ pc'[p] = "done"

\* C13: the history grows by exactly one entry, appended at the end and
\* naming the returned file, in the step that ends a call whose outcome is
\* Success; a call that ends in Failure, a call rejected because a download
\* was in progress, and every other step of a call leave the history as it is.
C13_HistoryGrowsOnSuccessOnly ==
    [][ IF \E p \in Procs : Ends(p) /\ result[p].success
        THEN \E p \in Procs :
                /\ Ends(p)
                /\ Len(download_history') = Len(download_history) + 1
                /\ SubSeq(download_history', 1, Len(download_history)) = download_history
                /\ download_history'[Len(download_history')].filepath = result[p].filepath
                /\ download_history'[Len(download_history')].title = result[p].message.arg
        ELSE download_history' = download_history
      ]_vars

C13_Witness ==
    /\ started = 3
    /\ pc[1] = "done"
    /\ pc[2] = "rejected"
    /\ Len(download_history) = 2
    /\ download_history[1].filepath # download_history[2].filepath

-----------------------------------------------------------------------------
(* C14 *)

\* a step of the history panel: no call starts, moves or ends
PanelStep == pc' = pc /\ started' = started

\* C14: a delete removes from the history every entry with the filepath of
\* the deleted one, removes that file when it exists, keeps the other entries
\* in order and their files, and changes nothing else; it can be done for
\* every shown entry, also one whose file is already missing.
C14_DeleteRemovesEntryAndFile ==
    /\ [][ PanelStep =>
             \E i \in Shown(download_history) :
                LET fpath == download_history[i].filepath
                IN  /\ download_history' =
                          SelectSeq(download_history, LAMBDA h : h.filepath # fpath)
                    /\ \A j \in DOMAIN download_history' :
                          download_history'[j].filepath # fpath
                    /\ files' = files \ {fpath}
                    /\ UNCHANGED <<download_in_progress, req, opts, engineLog, result, preview>>
         ]_vars
    /\ [](\A i \in Shown(download_history) : ENABLED DeleteEntry(i))

\* an entry whose file is missing next to an entry with another path whose
\* file exists: a delete has removed the first file and kept the second
C14_Witness ==
    \E i, j \in DOMAIN download_history :
        /\ download_history[i].filepath \notin files
        /\ download_history[j].filepath # download_history[i].filepath
        /\ download_history[j].filepath \in files

-----------------------------------------------------------------------------
(* C15 *)

\* the trailing-slash rule of sanitize_url still matches s
SlashRuleMatches(s) == Count(s, "/") > 3 /\ EndsWith(s, <<"/">>)

\* C15 as stated: sanitize_url applied to its own result returns that result,
\* for every input.
C15_Idempotent == Len(ret) >= 2 => ret[2] = ret[1]

\* C15 amended: sanitize_url applied to its own result returns that result
\* unless the result has more than three "/" and ends in "/"; then the second
\* application removes the trailing "/" characters.  A third application
\* and every later one change nothing.
C15_IdempotentAfterSlashRule ==
    /\ Len(ret) >= 2 =>
          IF SlashRuleMatches(ret[1]) THEN ret[2] = RStrip(ret[1], "/") /\ ret[2] # ret[1]
          ELSE ret[2] = ret[1]
    /\ \A i \in 3..Len(ret) : ret[i] = ret[2]

C15_Witness ==
    /\ Len(ret) >= 3
    /\ ~StartsWith(RemoveWhitespace(args.url), HTTP)
    /\ ~StartsWith(RemoveWhitespace(args.url), HTTPS)
    /\ EndsWith(args.url, <<"/">>)
    /\ ret[2] # ret[1]
    /\ ret[3] = ret[2]

-----------------------------------------------------------------------------
(* C16 *)

\* C16: a URL of a form declared by a pattern of platform P is detected as P,
\* and is_valid_content_url of that URL and P is true.
C16_DeclaredFormsAreContent ==
    \A i \in DOMAIN ret :
        /\ ret[i].fn = "detect_platform" => ret[i].value = args.declared
        /\ (ret[i].fn = "is_valid_content_url" /\ args.platform = args.declared)
              => ret[i].value = TRUE

-----------------------------------------------------------------------------
(* C17 *)

HomeBases == {<<"h","t","t","p","s",":","/","/","w","w","w",".","t","i","k","t","o","k",".","c","o","m">>, <<"h","t","t","p","s",":","/","/","t","i","k","t","o","k",".","c","o","m">>}

\* the TikTok homepage, with or without a trailing slash or a query string
IsTikTokHome(u) ==
    \E b \in HomeBases :
        \/ u = b
        \/ u = b \o <<"/">>
        \/ StartsWith(u, b \o <<"?">>)
        \/ StartsWith(u, b \o <<"/", "?">>)

HomeOrExploreUrls ==
    UNION {IF IsTikTokHome(u) \/ Contains(Lower(u), <<"/","e","x","p","l","o","r","e">>) THEN {u} ELSE {} :
              u \in DirectUrls}

\* C17: for platform tiktok, a request whose URL is the TikTok homepage (with
\* or without a trailing slash or a query string) or contains /explore fails
\* the content-URL check: download_video returns Failure invalid_content_url
\* and the engine is never invoked.
C17_HomeAndExploreNeverReachEngine ==
    \A p \in Procs :
        (/\ pc[p] # "idle"
         /\ req[p].platform = "tiktok"
         /\ req[p].url \in HomeOrExploreUrls)
        => /\ Calls(p) = 0
           /\ pc[p] # "dv_validate"
                 => Returned(p) /\ IsFailure(p, "invalid_content_url")

-----------------------------------------------------------------------------
(* C18 *)

InRun(p) == pc[p] \in {"hd_set", "dv_validate", "dv_attempt1", "dv_attempt2", "dv_return"}

\* what the existence check of p found is known from the state: there was no
\* check, or the engine wrote the file itself, or the file is still missing
\* (no file is removed in a session without the history panel)
CheckKnown(p) ==
    \/ Calls(p) = 0
    \/ LastOutcome(p).kind # "ok"
    \/ ExpectedFile(p, LastOutcome(p)) \in WrittenBy(LastOutcome(p))
    \/ ExpectedFile(p, LastOutcome(p)) \notin files

\* C18: get_video_info returns for everything the probe does, an info dict
\* when the probe returned and None when it raised; and two calls of
\* download_video with the same request, the same engine behaviour and the
\* same finding of the existence check return the same result whatever
\* their previews were.
C18_ProbeNeverDecides ==
    /\ \A p \in Procs :
          InRun(p) =>
              /\ preview[p].probe \in {o.kind : o \in ProbeOutcomes}
              /\ preview[p].info \in {NoInfo} \cup {Info(o.title) : o \in OkOutcomes}
              /\ preview[p].probe # "ok" <=> preview[p].info = NoInfo
    /\ \A p, q \in Procs :
          (/\ Returned(p)
           /\ Returned(q)
           /\ req[p] = req[q]
           /\ Len(engineLog[p]) = Len(engineLog[q])
           /\ \A i \in DOMAIN engineLog[p] : Outcome(p, i) = Outcome(q, i)
           /\ CheckKnown(p))
          => result[p] = result[q]

C18_Witness ==
    \E p, q \in Procs :
        /\ Returned(p)
        /\ Returned(q)
        /\ req[p] = req[q]
        /\ engineLog[p] = engineLog[q]
        /\ preview[p].probe = "Exception"
        /\ preview[p].info = NoInfo
        /\ preview[q].info # NoInfo
        /\ result[p].success
        /\ result[q].success

-----------------------------------------------------------------------------
(* C19 *)

\* the terms the claim names, per quality tier
CombinedWithinCap ==
    [best |-> "best[vcodec!=none][acodec!=none]",
     1080p |-> "best[height<=1080][vcodec!=none][acodec!=none]",
     720p |-> "best[height<=720][vcodec!=none][acodec!=none]",
     480p |-> "best[height<=480][vcodec!=none][acodec!=none]",
     360p |-> "best[height<=360][vcodec!=none][acodec!=none]"]

MatchingContainerPair ==
    [best |-> {"bestvideo[ext=mp4]+bestaudio[ext=m4a]"},
     1080p |-> {"bestvideo[ext=mp4]+bestaudio[ext=m4a]",
                "bestvideo[height<=1080][ext=mp4]+bestaudio[ext=m4a]"},
     720p |-> {"bestvideo[ext=mp4]+bestaudio[ext=m4a]",
               "bestvideo[height<=720][ext=mp4]+bestaudio[ext=m4a]"},
     480p |-> {"bestvideo[ext=mp4]+bestaudio[ext=m4a]",
               "bestvideo[height<=480][ext=mp4]+bestaudio[ext=m4a]"},
     360p |-> {"bestvideo[ext=mp4]+bestaudio[ext=m4a]",
               "bestvideo[height<=360][ext=mp4]+bestaudio[ext=m4a]"}]

AnyContainerPair ==
    [best |-> {"bestvideo+bestaudio"},
     1080p |-> {"bestvideo+bestaudio", "bestvideo[height<=1080]+bestaudio"},
     720p |-> {"bestvideo+bestaudio", "bestvideo[height<=720]+bestaudio"},
     480p |-> {"bestvideo+bestaudio", "bestvideo[height<=480]+bestaudio"},
     360p |-> {"bestvideo+bestaudio", "bestvideo[height<=360]+bestaudio"}]

\* C19: for tiktok without audio extraction the selector of every quality
\* tier has four terms, in this order: the combined video+audio stream within
\* the tier's height cap, best video plus best audio of matching container,
\* best video plus best audio of any container, the generic uncapped best; an
\* unknown quality key gives the expression of the best tier.
C19_TikTokFourTerms ==
    (ret # <<>> /\ args.platform = "tiktok" /\ ~args.extract_audio) =>
        LET tier == IF args.quality \in Qualities THEN args.quality ELSE "best"
            sel == ret[1]
        IN  /\ Len(sel) = 4
            /\ sel[1] = CombinedWithinCap[tier]
            /\ sel[2] \in MatchingContainerPair[tier]
            /\ sel[3] \in AnyContainerPair[tier]
            /\ sel[4] = "best"

-----------------------------------------------------------------------------
(* C20 *)

\* C20: with audio extraction the selector is the same expression,
\* bestaudio/best, for every quality key, known or not, and every platform,
\* None included; and the selector has a value for every input.
C20_AudioSelectorInvariant ==
    /\ ret = <<>> => ENABLED ApplySelect
    /\ ret # <<>> =>
          /\ Len(ret[1]) >= 1
          /\ args.extract_audio => ret[1] = <<"bestaudio", "best">>

C20_Witness ==
    /\ ret = << <<"bestaudio", "best">> >>
    /\ args.extract_audio
    /\ args.quality \notin Qualities
    /\ args.platform = NoPlatform

-----------------------------------------------------------------------------
(* C21 *)

\* no call is between its check of line 502 and the end of its finally clause
Quiescent == \A p \in Procs : pc[p] \in {"idle", "done", "rejected"}

-----------------------------------------------------------------------------
(* C22 *)

\* C22: in a session whose downloads and deletes follow one another, with
\* files removed by delete only, every history entry refers to a file that
\* exists; a delete leaves no entry with the filepath of the file it removed,
\* also when several entries share it because a later download wrote the same
\* path again.
C22_HistoryFilesExist ==
    /\ [](\A i \in DOMAIN download_history : download_history[i].filepath \in files)
    /\ [][ PanelStep =>
             \A f \in files \ files' :
                /\ \E i \in DOMAIN download_history : download_history[i].filepath = f
                /\ \A j \in DOMAIN download_history' : download_history'[j].filepath # f
         ]_vars

\* two entries share one filepath, from a download that wrote the path again,
\* after a delete has removed another file
C22_Witness ==
    /\ pc[1] = "done"
    /\ Len(download_history) = 2
    /\ download_history[1].filepath = download_history[2].filepath
    /\ Cardinality(files) = 1

-----------------------------------------------------------------------------
(* C23 *)

\* the URLs of the model for which detect_platform returns None
UndetectedUrls ==
    UNION {IF detect_platform(u) = NoPlatform THEN {u} ELSE {} :
              u \in DirectUrls \cup SessionUrls}

\* what the page offers for them
OfferedForUndetected == UNION {Offered(u) : u \in UndetectedUrls}

====
